---- MODULE Spec2Model ----
(***************************************************************************)
(* Model of lib/SILPasses/Utils/SimplifyInstruction.cpp: the peephole      *)
(* simplifier InstSimplifier and its entry point simplifyInstruction.      *)
(*                                                                         *)
(* The IR is a table of values (insts) and a table of block terminators    *)
(* (blocks).  A value is named by its index in insts; the null SILValue is *)
(* Null.  The optimizer owns the IR; the model draws it in Init from four  *)
(* bounded families (conversions, struct construction, extracts, control   *)
(* flow) that cover the two-hop neighbourhood every rule reads.  The       *)
(* actions are the calls of simplifyInstruction and, for the rules that    *)
(* look at control flow, the steps of the program being compiled.          *)
(***************************************************************************)
EXTENDS Integers, Sequences, FiniteSets, TLC

VARIABLES insts,    \* value id -> defining instruction (or SILArgument)
          blocks,   \* block id -> terminator
          memo,     \* value id -> result of the first simplifyInstruction call
          result,   \* the last simplifyInstruction call: [inst, val, again]
          curBB,    \* executing program: the block control is in
          prevBB,   \* executing program: the block control came from
          taken     \* executing program: the decision value at that transfer

vars == <<insts, blocks, memo, result, curBB, prevBB, taken>>

(*************************** bounds and constants **************************)
NumTypes == 2
MaxArity == 2
NumBlocks == 2
NumTags == 2

Null == 0          \* SILValue()
Int1 == 1          \* SILType::getBuiltinIntegerType(1, Context)
NotCalled == -1
NoDecision == -1

Types == 1..NumTypes
Blocks == 1..NumBlocks
Tags == 1..NumTags
EntryBB == 1

(****************************** IR records *********************************)
Inst(k, o, t, p) ==
  [kind |-> k, ops |-> o, type |-> t, parent |-> p,
   fieldNo |-> 0, castKind |-> "None", value |-> 0, element |-> 0]

Term(k, v, tb, fb, cd, db) ==
  [kind |-> k, operand |-> v, trueBB |-> tb, falseBB |-> fb,
   caseDest |-> cd, destBB |-> db]

ReturnTerm == Term("ReturnInst", Null, 0, 0, <<>>, 0)

Values == DOMAIN insts
Instructions == {v \in Values : insts[v].kind # "SILArgument"}

(***************************** IR accessors ********************************)
getType(V) == insts[V].type
getOperand(I) == insts[I].ops[1]
getNumOperands(I) == Len(insts[I].ops)
getParent(I) == insts[I].parent
getTerminator(BB) == blocks[BB]
dyn_cast(k, V) == IF V # Null /\ insts[V].kind = k THEN V ELSE Null
getBoolValue(v) == v # 0

\* successors of a block, read off its terminator
Successors(BB) ==
  LET T == blocks[BB] IN
  CASE T.kind = "CondBranchInst" -> {T.trueBB, T.falseBB}
    [] T.kind = "SwitchEnumInst" -> {T.caseDest[t] : t \in Tags}
    [] T.kind = "BranchInst" -> {T.destBB}
    [] OTHER -> {}

Predecessors(BB) == {P \in Blocks : BB \in Successors(P)}

\* the block's predecessor set has exactly one member
getSinglePredecessor(BB) ==
  IF Cardinality(Predecessors(BB)) = 1
  THEN CHOOSE P \in Predecessors(BB) : TRUE
  ELSE Null

getCaseDestination(SEI, tag) == blocks[SEI].caseDest[tag]

getOperandForField(Struct, f) == insts[Struct].ops[f + 1]

(******************************* the rules *********************************)
visitSILInstruction(I) == Null

\* mutant: the loop without the field-order comparison
RECURSIVE StructInstLoop_NoFieldCheck(_, _, _)
StructInstLoop_NoFieldCheck(SI, Ex0, i) ==
  IF i >= getNumOperands(SI) THEN getOperand(Ex0)
  ELSE LET Ex == dyn_cast("StructExtractInst", insts[SI].ops[0 + 1]) IN
       IF Ex = Null THEN Null
       ELSE IF getOperand(Ex0) # getOperand(Ex) THEN Null
       ELSE StructInstLoop_NoFieldCheck(SI, Ex0, i + 1)

RECURSIVE StructInstLoop(_, _, _)
StructInstLoop(SI, Ex0, i) ==
  IF i >= getNumOperands(SI) THEN getOperand(Ex0)
  ELSE LET Ex == dyn_cast("StructExtractInst", insts[SI].ops[0 + 1]) IN
       IF Ex = Null THEN Null
       ELSE IF getOperand(Ex0) # getOperand(Ex) THEN Null
       ELSE IF insts[Ex].fieldNo # i THEN Null
       ELSE StructInstLoop(SI, Ex0, i + 1)

visitStructInst(SI) ==
  IF getNumOperands(SI) < 1 THEN Null
  ELSE LET Ex0 == dyn_cast("StructExtractInst", insts[SI].ops[0 + 1]) IN
       IF Ex0 # Null
       THEN IF getType(SI) # getType(getOperand(Ex0)) THEN Null
            ELSE StructInstLoop(SI, Ex0, 0)
       ELSE Null

\* mutant: the element index is ignored
visitTupleExtractInst_FirstElement(TEI) ==
  LET TheTuple == dyn_cast("TupleInst", getOperand(TEI)) IN
  IF TheTuple # Null THEN insts[TheTuple].ops[0 + 1]
  ELSE Null

visitTupleExtractInst(TEI) ==
  LET TheTuple == dyn_cast("TupleInst", getOperand(TEI)) IN
  IF TheTuple # Null THEN insts[TheTuple].ops[insts[TEI].fieldNo + 1]
  ELSE Null

visitStructExtractInst(SEI) ==
  LET Struct == dyn_cast("StructInst", getOperand(SEI)) IN
  IF Struct # Null THEN getOperandForField(Struct, insts[SEI].fieldNo)
  ELSE Null

\* mutant: the true and false targets are exchanged
visitIntegerLiteralInst_SwappedTargets(ILI) ==
  LET BB == getParent(ILI) IN
  IF getType(ILI) # Int1 THEN Null
  ELSE LET Pred == getSinglePredecessor(BB) IN
       IF Pred = Null THEN Null
       ELSE LET CBI == getTerminator(Pred) IN
            IF CBI.kind = "CondBranchInst"
            THEN LET Value == getBoolValue(insts[ILI].value)
                     OtherBB == IF Value THEN CBI.falseBB ELSE CBI.trueBB
                 IN IF BB = OtherBB THEN CBI.operand ELSE Null
            ELSE Null

visitIntegerLiteralInst(ILI) ==
  LET BB == getParent(ILI) IN
  IF getType(ILI) # Int1 THEN Null
  ELSE LET Pred == getSinglePredecessor(BB) IN
       IF Pred = Null THEN Null
       ELSE LET CBI == getTerminator(Pred) IN
            IF CBI.kind = "CondBranchInst"
            THEN LET Value == getBoolValue(insts[ILI].value)
                     OtherBB == IF Value THEN CBI.trueBB ELSE CBI.falseBB
                 IN IF BB = OtherBB THEN CBI.operand ELSE Null
            ELSE Null

\* mutant: the enum type is not compared with the switch operand's type
visitEnumInst_NoTypeCheck(EI) ==
  IF getNumOperands(EI) > 0 THEN Null
  ELSE LET BB == getParent(EI)
           Pred == getSinglePredecessor(BB)
       IN IF Pred = Null THEN Null
          ELSE LET SEI == getTerminator(Pred) IN
               IF SEI.kind = "SwitchEnumInst"
               THEN IF BB = getCaseDestination(Pred, insts[EI].element)
                    THEN SEI.operand
                    ELSE Null
               ELSE Null

visitEnumInst(EI) ==
  IF getNumOperands(EI) > 0 THEN Null
  ELSE LET BB == getParent(EI)
           Pred == getSinglePredecessor(BB)
       IN IF Pred = Null THEN Null
          ELSE LET SEI == getTerminator(Pred) IN
               IF SEI.kind = "SwitchEnumInst"
               THEN IF getType(EI) # getType(SEI.operand) THEN Null
                    ELSE IF BB = getCaseDestination(Pred, insts[EI].element)
                         THEN SEI.operand
                         ELSE Null
               ELSE Null

visitAddressToPointerInst(ATPI) ==
  LET PTAI == dyn_cast("PointerToAddressInst", getOperand(ATPI)) IN
  IF PTAI # Null /\ getType(PTAI) = getType(getOperand(ATPI))
  THEN getOperand(PTAI)
  ELSE Null

visitPointerToAddressInst(PTAI) ==
  LET ATPI == dyn_cast("AddressToPointerInst", getOperand(PTAI)) IN
  IF ATPI # Null /\ getType(getOperand(ATPI)) = getType(PTAI)
  THEN getOperand(ATPI)
  ELSE Null

visitRefToRawPointerInst(RefToRaw) ==
  LET RawToRef == dyn_cast("RawPointerToRefInst", getOperand(RefToRaw)) IN
  IF RawToRef # Null THEN getOperand(RawToRef) ELSE Null

\* mutant: the cast kind is not tested
visitUnconditionalCheckedCastInst_AnyKind(UCCI) ==
  LET Upcast == dyn_cast("UpcastInst", getOperand(UCCI)) IN
  IF Upcast # Null
     /\ getType(getOperand(UCCI)) = getType(Upcast)
     /\ getType(UCCI) = getType(getOperand(Upcast))
  THEN getOperand(Upcast)
  ELSE Null

visitUnconditionalCheckedCastInst(UCCI) ==
  IF insts[UCCI].castKind = "Downcast"
  THEN LET Upcast == dyn_cast("UpcastInst", getOperand(UCCI)) IN
       IF Upcast # Null
          /\ getType(getOperand(UCCI)) = getType(Upcast)
          /\ getType(UCCI) = getType(getOperand(Upcast))
       THEN getOperand(Upcast)
       ELSE Null
  ELSE Null

visitObjectPointerToRefInst(OPRI) ==
  LET RTOPI == dyn_cast("RefToObjectPointerInst", getOperand(OPRI)) IN
  IF RTOPI # Null /\ getType(getOperand(RTOPI)) = getType(OPRI)
  THEN getOperand(RTOPI)
  ELSE Null

\* SILInstructionVisitor::visit: one visitor, picked by the instruction's kind
visit(I) ==
  LET k == insts[I].kind IN
  CASE k = "TupleExtractInst" -> visitTupleExtractInst(I)
    [] k = "StructExtractInst" -> visitStructExtractInst(I)
    [] k = "IntegerLiteralInst" -> visitIntegerLiteralInst(I)
    [] k = "EnumInst" -> visitEnumInst(I)
    [] k = "AddressToPointerInst" -> visitAddressToPointerInst(I)
    [] k = "PointerToAddressInst" -> visitPointerToAddressInst(I)
    [] k = "RefToRawPointerInst" -> visitRefToRawPointerInst(I)
    [] k = "UnconditionalCheckedCastInst" -> visitUnconditionalCheckedCastInst(I)
    [] k = "ObjectPointerToRefInst" -> visitObjectPointerToRefInst(I)
    [] k = "StructInst" -> visitStructInst(I)
    [] OTHER -> visitSILInstruction(I)

(************************* the IR families of Init *************************)
SeqsUpTo(S, n) == UNION {[1..m -> S] : m \in 0..n}

Arg(t) == Inst("SILArgument", <<>>, t, EntryBB)

ConversionKinds ==
  {"AddressToPointerInst", "PointerToAddressInst", "RefToRawPointerInst",
   "RawPointerToRefInst", "RefToObjectPointerInst", "ObjectPointerToRefInst",
   "UpcastInst", "UnconditionalCheckedCastInst"}

CastKinds(k) ==
  IF k = "UnconditionalCheckedCastInst" THEN {"Downcast", "Upcast"} ELSE {"None"}

Conversions(srcs) ==
  {[Inst(k, <<s>>, t, EntryBB) EXCEPT !.castKind = c] :
     <<k, s, t, c>> \in {q \in ConversionKinds \X srcs \X Types \X {"Downcast", "Upcast", "None"} :
                           q[4] \in CastKinds(q[1])}}

\* x; a conversion of x; a conversion of x or of that conversion.  Result
\* types are drawn independently of operand types: the rules compare them,
\* nothing in the simplifier constrains them.
ConversionIRs ==
  {<<Arg(t0), inner, outer>> :
     <<t0, inner, outer>> \in Types \X Conversions({1}) \X Conversions({1, 2})}

\* the type of field f of an aggregate of type t (types are opaque: any
\* function of the aggregate type and the field will do)
FieldType(t, f) == ((t + f) % NumTypes) + 1

StructExtracts(ir, srcs) ==
  {[Inst("StructExtractInst", <<s>>, FieldType(ir[s].type, f), EntryBB) EXCEPT !.fieldNo = f] :
     <<s, f>> \in srcs \X (0..(MaxArity - 1))}

\* two sources of one type; a field extract of the first and one of either;
\* a struct built from a source and the extracts in any order and number
StructIRs ==
  UNION {{<<Arg(t1), Arg(t1), e1, e2, Inst("StructInst", o, t, EntryBB)>> :
            <<e1, e2, o, t>> \in
               StructExtracts(<<Arg(t1), Arg(t1)>>, {1})
                  \X StructExtracts(<<Arg(t1), Arg(t1)>>, {1, 2})
                  \X SeqsUpTo({2, 3, 4}, MaxArity) \X Types} :
           t1 \in Types}

Aggregates(srcs) ==
  {Inst(k, o, t, EntryBB) :
     <<k, o, t>> \in {"TupleInst", "StructInst"} \X SeqsUpTo(srcs, MaxArity) \X Types}

Extracts(srcs) ==
  {[Inst(k, <<s>>, t, EntryBB) EXCEPT !.fieldNo = f] :
     <<k, s, t, f>> \in {"TupleExtractInst", "StructExtractInst"} \X srcs \X Types
                          \X (0..(MaxArity - 1))}

\* an extract of an aggregate instruction reads an element the aggregate has,
\* and has that element's type; any other extract has its field's type
WellFormedExtract(ir, ex) ==
  LET agg == ir[ex.ops[1]] IN
  IF agg.kind \in {"TupleInst", "StructInst"}
  THEN /\ ex.fieldNo < Len(agg.ops)
       /\ ex.type = ir[agg.ops[ex.fieldNo + 1]].type
  ELSE ex.type = FieldType(agg.type, ex.fieldNo)

\* two elements; an aggregate of them; an extract of an element or of the aggregate
ExtractIRs ==
  {ir \in {<<Arg(t1), Arg(t2), agg, ex>> :
             <<t1, t2, agg, ex>> \in Types \X Types \X Aggregates({1, 2})
                                       \X Extracts({1, 3})} :
     WellFormedExtract(ir, ir[4])}

IntegerLiterals ==
  {[Inst("IntegerLiteralInst", <<>>, t, p) EXCEPT !.value = b] :
     <<t, p, b>> \in Types \X Blocks \X (0..1)}

Enums ==
  {[Inst("EnumInst", o, t, p) EXCEPT !.element = e] :
     <<o, t, p, e>> \in {<<>>, <<1>>} \X Types \X Blocks \X Tags}

\* the branch condition (1-bit), the switch subject, and the instruction
\* that re-materialises a decision
ControlFlowIRs ==
  {<<Arg(Int1), Arg(NumTypes), x>> : x \in IntegerLiterals \cup Enums}

CondBranches == {Term("CondBranchInst", 1, tb, fb, <<>>, 0) : <<tb, fb>> \in Blocks \X Blocks}
SwitchEnums == {Term("SwitchEnumInst", 2, 0, 0, cd, 0) : cd \in [Tags -> Blocks]}
Branches == {Term("BranchInst", Null, 0, 0, <<>>, db) : db \in Blocks}

\* the entry block ends in any terminator; at most one other block branches
\* somewhere, the rest return
ControlFlowGraphs ==
  {g \in [Blocks -> CondBranches \cup SwitchEnums \cup Branches \cup {ReturnTerm}] :
     \E o \in Blocks :
        \A b \in Blocks \ {EntryBB} :
           IF b = o THEN g[b] \in Branches \cup {ReturnTerm} ELSE g[b] = ReturnTerm}

AllReturn == [b \in Blocks |-> ReturnTerm]

Init ==
  /\ \/ /\ insts \in ConversionIRs \cup StructIRs \cup ExtractIRs
        /\ blocks = AllReturn
     \/ /\ insts \in ControlFlowIRs
        /\ blocks \in ControlFlowGraphs
  /\ memo = [v \in DOMAIN insts |-> NotCalled]
  /\ result = [inst |-> Null, val |-> Null, again |-> FALSE]
  /\ curBB = EntryBB
  /\ prevBB = Null
  /\ taken = NoDecision

(******************************** actions **********************************)
\* mutant: a simplified instruction is overwritten by its replacement
simplifyInstruction_InPlace(I) ==
  /\ I \in Instructions
  /\ LET v == visit(I) IN
       /\ result' = [inst |-> I, val |-> v, again |-> memo[I] # NotCalled]
       /\ memo' = IF memo[I] = NotCalled THEN [memo EXCEPT ![I] = v] ELSE memo
       /\ insts' = IF v # Null THEN [insts EXCEPT ![I] = insts[v]] ELSE insts
  /\ UNCHANGED <<blocks, curBB, prevBB, taken>>

simplifyInstruction(I) ==
  /\ I \in Instructions
  /\ LET v == visit(I) IN
       /\ result' = [inst |-> I, val |-> v, again |-> memo[I] # NotCalled]
       /\ memo' = IF memo[I] = NotCalled THEN [memo EXCEPT ![I] = v] ELSE memo
  /\ UNCHANGED <<insts, blocks, curBB, prevBB, taken>>

\* the program runs: control leaves curBB through its terminator
Step ==
  /\ LET T == getTerminator(curBB) IN
       \/ /\ T.kind = "CondBranchInst"
          /\ \E c \in 0..1 :
               /\ taken' = c
               /\ curBB' = IF getBoolValue(c) THEN T.trueBB ELSE T.falseBB
       \/ /\ T.kind = "SwitchEnumInst"
          /\ \E t \in Tags :
               /\ taken' = t
               /\ curBB' = T.caseDest[t]
       \/ /\ T.kind = "BranchInst"
          /\ taken' = NoDecision
          /\ curBB' = T.destBB
  /\ prevBB' = curBB
  /\ UNCHANGED <<insts, blocks, memo, result>>

Next ==
  \/ \E I \in Values : simplifyInstruction(I)
  \/ Step

Spec == Init /\ [][Next]_vars

(******************************* properties ********************************)
Returned(I) == result.inst = I
kindOf(V) == insts[V].kind

\* SI builds, in field order, exactly the fields of the one source s
InOrderReconstruction(SI, s) ==
  /\ getNumOperands(SI) >= 1
  /\ \A i \in 1..getNumOperands(SI) :
       /\ kindOf(insts[SI].ops[i]) = "StructExtractInst"
       /\ insts[insts[SI].ops[i]].fieldNo = i - 1
       /\ getOperand(insts[SI].ops[i]) = s
  /\ getType(SI) = getType(s)

\* C1: type soundness - whenever simplify(I) returns a value v, the type of v
\* is the type of I, for every rule and every assignment of types.
C1_TypeSoundness ==
  (result.inst # Null /\ result.val # Null)
     => getType(result.val) = getType(result.inst)

\* C2: rule 3 fires on every in-order reconstruction - a struct of arity
\* n >= 1 whose i-th operand extracts field i of one source s, and whose type
\* is the type of s, simplifies to s.
C2_StructFiresOnReconstruction ==
  \A SI \in Values : \A s \in Values :
     (Returned(SI) /\ kindOf(SI) = "StructInst" /\ InOrderReconstruction(SI, s))
        => result.val = s

\* C3: rule 3 fires on nothing but an exact in-order reconstruction - when
\* simplify of a struct returns a value, the struct is non-empty, every operand
\* at position i extracts field i of one source of the struct's type, and the
\* value returned is that source.
C3_StructFiresOnlyOnReconstruction ==
  \A SI \in Values :
     (Returned(SI) /\ kindOf(SI) = "StructInst" /\ result.val # Null)
        => InOrderReconstruction(SI, result.val)

C3_Witness ==
  /\ result.inst # Null
  /\ kindOf(result.inst) = "StructInst"
  /\ result.val # Null

\* the inverse pairs of rules 4-8: outer conversion over inner conversion
DualPairs ==
  {<<"AddressToPointerInst", "PointerToAddressInst">>,
   <<"PointerToAddressInst", "AddressToPointerInst">>,
   <<"RefToRawPointerInst", "RawPointerToRefInst">>,
   <<"ObjectPointerToRefInst", "RefToObjectPointerInst">>,
   <<"UnconditionalCheckedCastInst", "UpcastInst">>}

IsDualPair(I) ==
  /\ getNumOperands(I) = 1
  /\ <<kindOf(I), kindOf(getOperand(I))>> \in DualPairs
  /\ kindOf(I) = "UnconditionalCheckedCastInst" => insts[I].castKind = "Downcast"

\* C4: inverse round trips - for each dual pair of rules 4-8 over x, simplify
\* returns x when the outer result type is the type of x, and returns nothing
\* for the type-checked pairs when it is not.
C4_InverseRoundTrip ==
  \A I \in Values :
     (Returned(I) /\ IsDualPair(I)) =>
        LET x == getOperand(getOperand(I)) IN
        /\ getType(I) = getType(x) => result.val = x
        /\ (getType(I) # getType(x) /\ kindOf(I) # "RefToRawPointerInst")
              => result.val = Null

\* the precondition of rule 9, as the rule table states it
Rule9Applies(ILI, P) ==
  /\ getType(ILI) = Int1
  /\ Predecessors(getParent(ILI)) = {P}
  /\ blocks[P].kind = "CondBranchInst"
  /\ getParent(ILI) = IF insts[ILI].value = 1 THEN blocks[P].trueBB
                                              ELSE blocks[P].falseBB

\* C5: rule 9 - simplify of an integer literal b in block B returns cond
\* exactly when the literal is 1-bit, B has one predecessor P ending in
\* CondBranch(cond, T, F), and B is T for b true or F for b false; otherwise
\* it returns nothing.
C5_IntegerLiteralRule ==
  \A ILI \in Values :
     (Returned(ILI) /\ kindOf(ILI) = "IntegerLiteralInst") =>
        IF \E P \in Blocks : Rule9Applies(ILI, P)
        THEN \E P \in Blocks : Rule9Applies(ILI, P) /\ result.val = blocks[P].operand
        ELSE result.val = Null

C5_Witness ==
  /\ result.inst # Null
  /\ kindOf(result.inst) = "IntegerLiteralInst"
  /\ result.val # Null
  /\ insts[result.inst].value = 0

\* the precondition of rule 10, as the rule table states it
Rule10Applies(EI, P) ==
  /\ getNumOperands(EI) = 0
  /\ Predecessors(getParent(EI)) = {P}
  /\ blocks[P].kind = "SwitchEnumInst"
  /\ getType(EI) = getType(blocks[P].operand)
  /\ getParent(EI) = blocks[P].caseDest[insts[EI].element]

\* C6: rule 10 - simplify of a variant construction of a tag in block B
\* returns subject exactly when there is no payload, B has one predecessor P
\* ending in SwitchOnTag(subject, caseTarget), the constructed type is the
\* subject's, and B is caseTarget[tag]; otherwise it returns nothing.
C6_EnumRule ==
  \A EI \in Values :
     (Returned(EI) /\ kindOf(EI) = "EnumInst") =>
        IF \E P \in Blocks : Rule10Applies(EI, P)
        THEN \E P \in Blocks : Rule10Applies(EI, P) /\ result.val = blocks[P].operand
        ELSE result.val = Null

C6_Witness ==
  /\ result.inst # Null
  /\ kindOf(result.inst) = "EnumInst"
  /\ result.val # Null

HasNoRule(I) ==
  \/ kindOf(I) \in {"TupleInst", "RawPointerToRefInst", "RefToObjectPointerInst",
                    "UpcastInst"}
  \/ kindOf(I) = "UnconditionalCheckedCastInst" /\ insts[I].castKind = "Upcast"

\* C7: dispatch default - simplify returns nothing for every instruction
\* whose kind has no rule (tuple construction, RawPtrToRef, RefToOpaquePtr,
\* Upcast, a checked cast of kind Upcast), so the reverse compositions are
\* never simplified.
C7_DispatchDefault ==
  \A I \in Values : (Returned(I) /\ HasNoRule(I)) => result.val = Null

C7_Witness ==
  /\ result.inst # Null
  /\ HasNoRule(result.inst)
  /\ getNumOperands(result.inst) = 1
  /\ <<kindOf(getOperand(result.inst)), kindOf(result.inst)>> \in DualPairs
  /\ getType(result.inst) = getType(getOperand(getOperand(result.inst)))
  /\ result.val = Null

\* C8: purity and idempotence - no step changes any instruction, block or
\* terminator, and a repeated call on an instruction returns what its first
\* call returned.
C8_PureAndIdempotent ==
  [][/\ insts' = insts
     /\ blocks' = blocks
     /\ result'.again => result'.val = memo[result'.inst]]_vars

C8_Witness ==
  /\ result.again
  /\ result.val # Null
  /\ \E J \in Values : J # result.inst /\ memo[J] # NotCalled

\* C9: extract of construct - a tuple extract of a tuple construction returns
\* the element at its index, a field extract of a struct construction returns
\* the value bound to its field, and an extract of anything else returns
\* nothing.
C9_ExtractOfConstruct ==
  \A E \in Values :
     (Returned(E) /\ kindOf(E) \in {"TupleExtractInst", "StructExtractInst"}) =>
        LET src == getOperand(E)
            ctor == IF kindOf(E) = "TupleExtractInst" THEN "TupleInst" ELSE "StructInst"
        IN IF kindOf(src) = ctor
           THEN result.val = insts[src].ops[insts[E].fieldNo + 1]
           ELSE result.val = Null

C9_Witness ==
  /\ result.inst # Null
  /\ kindOf(result.inst) = "TupleExtractInst"
  /\ insts[result.inst].fieldNo = 1
  /\ result.val # Null
  /\ result.val # insts[getOperand(result.inst)].ops[1]

\* C10: semantic soundness of rules 9 and 10 - once simplify has returned
\* cond for a literal b (or subject for a variant construction of a tag) in
\* block B, every transfer of control into B carries cond = b (or subject
\* holding that tag).
C10_ControlFlowSoundness ==
  \A I \in Values :
     (/\ memo[I] # NotCalled /\ memo[I] # Null
      /\ prevBB # Null
      /\ curBB = getParent(I)) =>
        /\ kindOf(I) = "IntegerLiteralInst" => taken = insts[I].value
        /\ kindOf(I) = "EnumInst" => taken = insts[I].element
====
